---- MODULE Spec2Model ----
(***************************************************************************)
(* Underwater trash detection app: the class registry (app.py and          *)
(* trash_classes.py), the per-frame annotation loop, process_video_file    *)
(* with the Streamlit script sections that call it, and the session store  *)
(* of the specification.                                                   *)
(*                                                                         *)
(* Strings are sequences of one-character strings, so that title-casing    *)
(* and the "Unknown_<id>" formatting are computed, not assumed.            *)
(***************************************************************************)
EXTENDS Integers, Sequences, FiniteSets, TLC

(***************************************************************************)
(* Bounds of the model.                                                    *)
(***************************************************************************)
MaxId == 2          \* class ids of a model's label set are 0..MaxId
MaxLabels == 3      \* a label set has at most this many entries
MaxBoxes == 3       \* one inference returns at most this many boxes in all
MaxK == 2           \* max_detections ranges over 0..MaxK
MaxFrames == 23     \* a video source decodes to at most this many frames
MaxSkip == 5        \* frame_skip ranges over 1..MaxSkip
MaxSessions == 2    \* sessions created in one behaviour of the session store

(***************************************************************************)
(* Generic helpers.                                                        *)
(***************************************************************************)
Range(s) == {s[i] : i \in 1..Len(s)}

RECURSIVE IndexOf(_, _, _)
\* position of c in s at or after i, 0 when absent
IndexOf(s, c, i) ==
    IF i > Len(s) THEN 0
    ELSE IF s[i] = c THEN i ELSE IndexOf(s, c, i + 1)

LowerCase ==
    <<"a","b","c","d","e","f","g","h","i","j","k","l","m","n","o","p","q","r","s","t","u","v","w","x","y","z">>
UpperCase ==
    <<"A","B","C","D","E","F","G","H","I","J","K","L","M","N","O","P","Q","R","S","T","U","V","W","X","Y","Z">>

LowerSet == Range(LowerCase)
UpperSet == Range(UpperCase)
UpperOf == [c \in LowerSet |-> UpperCase[IndexOf(LowerCase, c, 1)]]
LowerOf == [c \in UpperSet |-> LowerCase[IndexOf(UpperCase, c, 1)]]

IsLower(c) == c \in LowerSet
IsUpper(c) == c \in UpperSet
ToUpper(c) == IF IsLower(c) THEN UpperOf[c] ELSE c
ToLower(c) == IF IsUpper(c) THEN LowerOf[c] ELSE c

RECURSIVE TitleFrom(_, _, _)
\* str.title(): a cased character that follows an uncased one (or starts the
\* string) is upper-cased, every other cased character is lower-cased.
TitleFrom(s, i, previous_is_cased) ==
    IF i > Len(s) THEN <<>>
    ELSE LET c == s[i] IN
         IF IsLower(c) \/ IsUpper(c)
         THEN <<IF previous_is_cased THEN ToLower(c) ELSE ToUpper(c)>>
                  \o TitleFrom(s, i + 1, TRUE)
         ELSE <<c>> \o TitleFrom(s, i + 1, FALSE)

Title(s) == TitleFrom(s, 1, FALSE)

Digits == <<"0","1","2","3","4","5","6","7","8","9">>

RECURSIVE NatToStr(_)
NatToStr(n) ==
    IF n < 10 THEN <<Digits[n + 1]>>
    ELSE NatToStr(n \div 10) \o <<Digits[(n % 10) + 1]>>

\* str(int) as the f-string formats it
IntToStr(n) == IF n < 0 THEN <<"-">> \o NatToStr(-n) ELSE NatToStr(n)

(***************************************************************************)
(* Class registry: module-level tables of app.py / trash_classes.py.      *)
(***************************************************************************)
DefaultExpected ==
    << <<"m","a","s","k">>,
       <<"c","a","n">>,
       <<"c","e","l","l","p","h","o","n","e">>,
       <<"e","l","e","c","t","r","o","n","i","c","s">>,
       <<"g","b","o","t","t","l","e">>,
       <<"g","l","o","v","e">>,
       <<"m","e","t","a","l">>,
       <<"m","i","s","c">>,
       <<"n","e","t">>,
       <<"p","b","a","g">>,
       <<"p","b","o","t","t","l","e">>,
       <<"p","l","a","s","t","i","c">>,
       <<"r","o","d">>,
       <<"s","u","n","g","l","a","s","s","e","s">>,
       <<"t","y","r","e">> >>

DefaultDisplay ==
    << <<"M","a","s","k">>,
       <<"C","a","n">>,
       <<"C","e","l","l","p","h","o","n","e">>,
       <<"E","l","e","c","t","r","o","n","i","c","s">>,
       <<"G","l","a","s","s"," ","B","o","t","t","l","e">>,
       <<"G","l","o","v","e">>,
       <<"M","e","t","a","l">>,
       <<"M","i","s","c">>,
       <<"N","e","t">>,
       <<"P","l","a","s","t","i","c"," ","B","a","g">>,
       <<"P","l","a","s","t","i","c"," ","B","o","t","t","l","e">>,
       <<"P","l","a","s","t","i","c">>,
       <<"R","o","d">>,
       <<"S","u","n","g","l","a","s","s","e","s">>,
       <<"T","y","r","e">> >>

\* BGR triples; never reassigned by either module
COLORS ==
    << <<0, 255, 0>>,     <<255, 0, 0>>,   <<255, 255, 0>>, <<0, 0, 255>>,
       <<255, 255, 255>>, <<0, 255, 255>>, <<128, 128, 128>>, <<255, 0, 255>>,
       <<0, 128, 255>>,   <<0, 255, 128>>, <<128, 0, 128>>, <<255, 128, 0>>,
       <<128, 0, 0>>,     <<255, 255, 128>>, <<0, 128, 0>> >>

DefaultColor == <<0, 255, 0>>

UnknownPrefix == <<"U","n","k","n","o","w","n","_">>

VARIABLES
    registry_module,    \* which copy of the registry code runs: "app" or "trash_classes"
    EXPECTED_CLASSES,   \* global EXPECTED_CLASSES
    DISPLAY_NAMES,      \* global DISPLAY_NAMES
    last_update,        \* the last completed update_mapping_from_model: [called, arg]
    last_resolve,       \* the last resolve call: [called, id, name, short, color]
    upd,                \* an update_mapping_from_model call in flight, statement by statement: [pc, arg, k]
    rd                  \* a concurrent reader resolving one id: [pc, id, name, short, color]

regVars == <<registry_module, EXPECTED_CLASSES, DISPLAY_NAMES, last_update,
             last_resolve, upd, rd>>

VARIABLES
    results,               \* what model(frame) returned: a sequence of result objects
    confidence_threshold,  \* tau, in hundredths
    max_detections,        \* K
    ri,                    \* position of the outer loop `for result in results`
    bi,                    \* position of the inner loop `for box in boxes`
    detection_count,
    drawn,                 \* what was drawn on processed_frame, in drawing order
    apc,                   \* "infer", "result", "box", "done"
    buffers,               \* the image buffers: per buffer, the marks drawn over the decoded pixels
    frame,                 \* the buffer `frame` (`img` in the webcam processor) refers to
    processed_frame,       \* the buffer `processed_frame` refers to, 0 before the copy
    model_input,           \* content of the buffer when it was handed to the model
    original_written       \* content of the buffer when it was written to out_original

annVars == <<results, confidence_threshold, max_detections, ri, bi,
             detection_count, drawn, apc, buffers, frame, processed_frame,
             model_input, original_written>>

VARIABLES
    spc,                    \* where the script run is
    model_file,             \* best.pt on disk: "missing", "ok", "corrupt"
    cache,                  \* st.cache_resource entry of load_yolo_model_cached: [filled, value]
    model,                  \* the script's global `model`: "unset", "None", "YOLO"
    messages,               \* st.error / st.warning / st.success shown in this run
    source_frames,          \* frames the opened source decodes to
    total_frames,           \* int(cap.get(CAP_PROP_FRAME_COUNT))
    frame_skip,
    frame_count,
    processed_frames_count,
    out_original,           \* frame numbers written to the original-output video
    out_detected,           \* frame numbers written to the detected-output video
    inferred,               \* frame numbers handed to model(frame), in call order
    open_handles,           \* of "cap", "out_original", "out_detected": opened and not released
    files,                  \* temporary files of this run on disk: "upload", "original", "detected"
    leaked,                 \* a temporary file of an earlier run is still on disk
    ret,                    \* what process_video_file returned to the script
    delivered,              \* videos shown with st.video in this run
    exception,              \* the uncaught exception that ended the run, or "none"
    transformer,            \* the model handed to VideoTransformer by this run, or "none"
    request                 \* what this run met: a video uploaded, Process Video pressed,
                            \* cap.isOpened(), the writers' isOpened()

appVars == <<spc, model_file, cache, model, messages, source_frames, total_frames,
             frame_skip, frame_count, processed_frames_count, out_original,
             out_detected, inferred, open_handles, files, leaked, ret, delivered,
             exception, transformer, request>>

\* everything of a run but the script position, the model and the messages
videoVars == <<source_frames, total_frames, frame_skip, frame_count,
               processed_frames_count, out_original, out_detected, inferred,
               open_handles, files, leaked, ret, delivered, exception>>

VARIABLES
    sessions,               \* the session store: token -> stored result
    issued,                 \* tokens generated so far
    held,                   \* per in-flight request: the token create returned to it
    take_result,            \* per caller: the outcome of its latest take
    created,                \* token -> the result it was created with
    ok_takes                \* token -> number of takes that returned its session

sesVars == <<sessions, issued, held, take_result, created, ok_takes>>

VARIABLES
    frame_queue,            \* self.frame_queue, queue.Queue(maxsize=1): the images in it, each
                            \* with the recv call that put it
    call,                   \* per thread: the recv call it is in: [pc, img]
    outcome,                \* per thread: how its latest recv call ended
    frame_cache,            \* images whose st.cache_data entry of _process_frame_cached is alive
    cross_drained           \* a call's drain took the image of another call still in progress

liveVars == <<frame_queue, call, outcome, frame_cache, cross_drained>>

Unknown(class_id) == UnknownPrefix \o IntToStr(class_id)

\* the common body of get_class_name / get_class_name_short over a name list
NameIn(names, class_id) ==
    IF 0 <= class_id /\ class_id < Len(names)
    THEN names[class_id + 1]
    ELSE Unknown(class_id)

get_class_name(class_id) == NameIn(EXPECTED_CLASSES, class_id)

get_class_name_short(class_id) == NameIn(DISPLAY_NAMES, class_id)

get_class_color(class_id) ==
    IF 0 <= class_id /\ class_id < Len(COLORS)
    THEN COLORS[class_id + 1]
    ELSE DefaultColor

(***************************************************************************)
(* A label set (model.names) is a dict: a sequence of <<id, name>> entries *)
(* with distinct ids, in insertion order.                                  *)
(***************************************************************************)
NamesFor(id) ==
    CASE id = 0 -> { <<"m","a","s","k">>, <<"p","B","a","g">> }
      [] id = 1 -> { <<"g","l","o","v","e">> }
      [] id = 2 -> { <<"c","a","n">> }
      [] id = 3 -> { <<"n","e","t"," ","2","x">> }
      [] OTHER  -> { <<"g","-","b","o","t","t","l","e">> }

Entries == {e \in (0..MaxId) \X UNION {NamesFor(i) : i \in 0..MaxId} : e[2] \in NamesFor(e[1])}

RECURSIVE DictsOfLen(_)
DictsOfLen(n) ==
    IF n = 0 THEN {<<>>}
    ELSE UNION {{Append(d, e) : e \in {x \in Entries :
                                          \A i \in 1..Len(d) : d[i][1] # x[1]}} :
                d \in DictsOfLen(n - 1)}

Dicts == UNION {DictsOfLen(n) : n \in 0..MaxLabels}

Keys(d) == {d[i][1] : i \in 1..Len(d)}

RECURSIVE InsertByKey(_, _)
InsertByKey(sorted, e) ==
    IF sorted = <<>> THEN <<e>>
    ELSE IF e[1] < Head(sorted)[1] THEN <<e>> \o sorted
    ELSE <<Head(sorted)>> \o InsertByKey(Tail(sorted), e)

RECURSIVE SortedItems(_)
\* sorted(model_names_dict.items()): ascending key (keys are distinct)
SortedItems(d) ==
    IF d = <<>> THEN <<>>
    ELSE InsertByKey(SortedItems(SubSeq(d, 1, Len(d) - 1)), d[Len(d)])

\* list(model_names.values()): insertion order
Values(d) == [i \in 1..Len(d) |-> d[i][2]]

\* `if model_names_dict:` / `if model_names:`
\* app.py lines 74-75: the names, by ascending id
AppNames(d) == Values(SortedItems(d))

\* trash_classes.py line 75: the names, in insertion order
TcNames(d) == Values(d)

NewExpected(d) == IF registry_module = "app" THEN AppNames(d) ELSE TcNames(d)

\* app.py line 76 / trash_classes.py lines 77-82: title-cased, same order
NewDisplay(d) == [i \in 1..Len(d) |-> Title(NewExpected(d)[i])]

ResolveIds == (-1 .. MaxId + 1) \cup {Len(COLORS) - 1, Len(COLORS)}

NoUpdate == [called |-> FALSE, arg |-> <<>>]

\* `if model_names_dict:` with the test left out
Truthy_Mutant(d) == TRUE

\* `if model_names_dict:` (app.py line 72, trash_classes.py line 72)
Truthy(d) == d # <<>>

NoResolve == [called |-> FALSE, id |-> 0, name |-> <<>>, short |-> <<>>, color |-> <<>>]

RegInit ==
    /\ registry_module \in {"app", "trash_classes"}
    /\ EXPECTED_CLASSES = DefaultExpected
    /\ DISPLAY_NAMES = DefaultDisplay
    /\ last_update = NoUpdate
    /\ last_resolve = NoResolve
    /\ upd = [pc |-> "idle", arg |-> <<>>, k |-> 0]
    /\ rd = [pc |-> "idle"]

\* update_mapping_from_model, the whole call
UpdateMapping(d) ==
    /\ upd.pc = "idle"
    /\ IF Truthy(d)
       THEN /\ EXPECTED_CLASSES' = NewExpected(d)
            /\ DISPLAY_NAMES' = NewDisplay(d)
       ELSE UNCHANGED <<EXPECTED_CLASSES, DISPLAY_NAMES>>
    /\ last_update' = [called |-> TRUE, arg |-> d]
    /\ last_resolve' = NoResolve
    /\ UNCHANGED <<registry_module, upd, rd>>
    /\ UNCHANGED <<annVars, appVars, sesVars, liveVars>>

\* one resolve: get_class_name, get_class_name_short, get_class_color of one id
Resolve(id) ==
    /\ upd.pc = "idle"
    /\ last_resolve' = [called |-> TRUE, id |-> id,
                        name |-> get_class_name(id),
                        short |-> get_class_name_short(id),
                        color |-> get_class_color(id)]
    /\ UNCHANGED <<registry_module, EXPECTED_CLASSES, DISPLAY_NAMES, last_update,
                   upd, rd>>
    /\ UNCHANGED <<annVars, appVars, sesVars, liveVars>>

RegNext ==
    \/ \E d \in Dicts : UpdateMapping(d)
    \/ \E id \in ResolveIds : Resolve(id)

(***************************************************************************)
(* The same update, statement by statement, next to a reader thread (the   *)
(* webcam frame callback resolves ids while the script thread reloads).    *)
(***************************************************************************)
\* the call: the truth test, and in app.py the local sorted_names (line 74)
UpdStart(d) ==
    /\ upd.pc = "idle"
    /\ upd' = [pc |-> IF Truthy(d) THEN "names" ELSE "done", arg |-> d, k |-> 0]
    /\ UNCHANGED <<registry_module, EXPECTED_CLASSES, DISPLAY_NAMES, last_update,
                   last_resolve, rd>>
    /\ UNCHANGED <<annVars, appVars, sesVars, liveVars>>

\* line 75 of either module: EXPECTED_CLASSES = ...
UpdNames ==
    /\ upd.pc = "names"
    /\ EXPECTED_CLASSES' = NewExpected(upd.arg)
    /\ upd' = [upd EXCEPT !.pc = IF registry_module = "app" THEN "display" ELSE "clear"]
    /\ UNCHANGED <<registry_module, DISPLAY_NAMES, last_update, last_resolve, rd>>
    /\ UNCHANGED <<annVars, appVars, sesVars, liveVars>>

\* app.py line 76: DISPLAY_NAMES = [name.title() for _, name in sorted_names]
UpdDisplay ==
    /\ upd.pc = "display"
    /\ DISPLAY_NAMES' = NewDisplay(upd.arg)
    /\ upd' = [upd EXCEPT !.pc = "done"]
    /\ last_update' = [called |-> TRUE, arg |-> upd.arg]
    /\ UNCHANGED <<registry_module, EXPECTED_CLASSES, last_resolve, rd>>
    /\ UNCHANGED <<annVars, appVars, sesVars, liveVars>>

\* trash_classes.py line 77: DISPLAY_NAMES = []
UpdClear ==
    /\ upd.pc = "clear"
    /\ DISPLAY_NAMES' = <<>>
    /\ upd' = [upd EXCEPT !.pc = "append", !.k = 1]
    /\ UNCHANGED <<registry_module, EXPECTED_CLASSES, last_update, last_resolve, rd>>
    /\ UNCHANGED <<annVars, appVars, sesVars, liveVars>>

\* trash_classes.py lines 78-82: one iteration of the append loop, or its exit
UpdAppend ==
    /\ upd.pc = "append"
    /\ IF upd.k <= Len(upd.arg)
       THEN /\ DISPLAY_NAMES' = Append(DISPLAY_NAMES, Title(Values(upd.arg)[upd.k]))
            /\ upd' = [upd EXCEPT !.k = upd.k + 1]
            /\ UNCHANGED last_update
       ELSE /\ upd' = [upd EXCEPT !.pc = "done"]
            /\ last_update' = [called |-> TRUE, arg |-> upd.arg]
            /\ UNCHANGED DISPLAY_NAMES
    /\ UNCHANGED <<registry_module, EXPECTED_CLASSES, last_resolve, rd>>
    /\ UNCHANGED <<annVars, appVars, sesVars, liveVars>>

RdStart(id) ==
    /\ rd.pc \in {"idle", "done"}
    /\ rd' = [pc |-> "name", id |-> id]
    /\ UNCHANGED <<registry_module, EXPECTED_CLASSES, DISPLAY_NAMES, last_update,
                   last_resolve, upd>>
    /\ UNCHANGED <<annVars, appVars, sesVars, liveVars>>

RdName ==
    /\ rd.pc = "name"
    /\ rd' = [pc |-> "short", id |-> rd.id, name |-> get_class_name(rd.id)]
    /\ UNCHANGED <<registry_module, EXPECTED_CLASSES, DISPLAY_NAMES, last_update,
                   last_resolve, upd>>
    /\ UNCHANGED <<annVars, appVars, sesVars, liveVars>>

RdShort ==
    /\ rd.pc = "short"
    /\ rd' = [pc |-> "color", id |-> rd.id, name |-> rd.name,
              short |-> get_class_name_short(rd.id)]
    /\ UNCHANGED <<registry_module, EXPECTED_CLASSES, DISPLAY_NAMES, last_update,
                   last_resolve, upd>>
    /\ UNCHANGED <<annVars, appVars, sesVars, liveVars>>

RdColor ==
    /\ rd.pc = "color"
    /\ rd' = [pc |-> "done", id |-> rd.id, name |-> rd.name, short |-> rd.short,
              color |-> get_class_color(rd.id)]
    /\ UNCHANGED <<registry_module, EXPECTED_CLASSES, DISPLAY_NAMES, last_update,
                   last_resolve, upd>>
    /\ UNCHANGED <<annVars, appVars, sesVars, liveVars>>

RegConcNext ==
    \/ \E d \in Dicts : UpdStart(d)
    \/ UpdNames
    \/ UpdDisplay
    \/ UpdClear
    \/ UpdAppend
    \/ \E id \in ResolveIds : RdStart(id)
    \/ RdName
    \/ RdShort
    \/ RdColor


(***************************************************************************)
(* The per-frame annotation loop: process_video_file lines 145-170 and,    *)
(* statement for statement the same, VideoTransformer._process_frame_cached*)
(* lines 219-246.  Confidences and thresholds are in hundredths.           *)
(***************************************************************************)
BoxPool ==
    { [conf |-> 40, cls |-> 0], [conf |-> 50, cls |-> 1],
      [conf |-> 90, cls |-> 0], [conf |-> 90, cls |-> 15] }

Thresholds == {50, 90}

RECURSIVE BoxSeqs(_)
BoxSeqs(n) ==
    IF n = 0 THEN {<<>>}
    ELSE BoxSeqs(n - 1) \cup
         {Append(q, b) : q \in {x \in BoxSeqs(n - 1) : Len(x) = n - 1}, b \in BoxPool}

\* a result object: result.boxes is None, or a sequence of boxes
ResultOf(boxes) == [boxes_is_none |-> FALSE, boxes |-> boxes]
ResultNone == [boxes_is_none |-> TRUE, boxes |-> <<>>]

\* the ways one inference lays its boxes out over result objects: one result,
\* two results, two results around one whose boxes are None
Layouts(flat) ==
    {<<ResultOf(flat)>>} \cup
    {<<ResultOf(SubSeq(flat, 1, c)), ResultOf(SubSeq(flat, c + 1, Len(flat)))>> :
        c \in 0..Len(flat)} \cup
    {<<ResultOf(SubSeq(flat, 1, c)), ResultNone,
       ResultOf(SubSeq(flat, c + 1, Len(flat)))>> : c \in 0..Len(flat)}

Inferences == UNION {Layouts(flat) : flat \in BoxSeqs(MaxBoxes)}

\* mutant: the comparison `<=` in place of `<`
BelowThreshold_Mutant(confidence, threshold) == confidence <= threshold

\* `if confidence < confidence_threshold: continue`
BelowThreshold(confidence, threshold) == confidence < threshold

\* `if detection_count >= max_detections: break`
CapReached_Mutant(count, cap) == count > cap
CapReached(count, cap) == count >= cap

\* the label text f"{class_name}: {confidence:.2f}" for hundredths in 0..100
Label(class_name, confidence) ==
    class_name \o <<":", " ">> \o NatToStr(confidence \div 100) \o <<".">>
        \o <<Digits[((confidence % 100) \div 10) + 1], Digits[(confidence % 10) + 1]>>

\* not handed over / not written yet
NotYet == <<"unset">>

\* frame.copy() / img.copy(): a buffer of its own
CopyOf_Mutant(ref, heap) == ref
CopyOf(ref, heap) == Len(heap) + 1

\* the buffers after `processed_frame = frame.copy()` gave processed_frame the buffer new
AfterCopy(heap, ref, new) == IF new > Len(heap) THEN Append(heap, heap[ref]) ELSE heap

\* cv2.rectangle and cv2.putText on a buffer
Mark(box, label, color) == [box |-> box, label |-> label, color |-> color]

AnnInit ==
    /\ buffers = << <<>> >>
    /\ frame = 1
    /\ processed_frame = 0
    /\ model_input = NotYet
    /\ original_written = NotYet
    /\ results \in Inferences
    /\ confidence_threshold \in Thresholds
    /\ max_detections \in 0..MaxK
    /\ ri = 0
    /\ bi = 0
    /\ detection_count = 0
    /\ drawn = <<>>
    /\ apc = "infer"

\* out_original.write(frame); processed_frame = frame.copy();
\* results = model(frame); detection_count = 0
Infer ==
    /\ apc = "infer"
    /\ original_written' = buffers[frame]
    /\ model_input' = buffers[frame]
    /\ processed_frame' = CopyOf(frame, buffers)
    /\ buffers' = AfterCopy(buffers, frame, CopyOf(frame, buffers))
    /\ UNCHANGED frame
    /\ detection_count' = 0
    /\ drawn' = <<>>
    /\ ri' = 1
    /\ bi' = 0
    /\ apc' = "result"
    /\ UNCHANGED <<results, confidence_threshold, max_detections>>
    /\ UNCHANGED <<regVars, appVars, sesVars, liveVars>>

\* `for result in results:` / `boxes = result.boxes` / `if boxes is not None:`
NextResult ==
    /\ apc = "result"
    /\ IF ri > Len(results)
       THEN apc' = "done" /\ UNCHANGED <<ri, bi>>
       ELSE IF results[ri].boxes_is_none
            THEN ri' = ri + 1 /\ UNCHANGED <<bi, apc>>
            ELSE bi' = 1 /\ apc' = "box" /\ UNCHANGED ri
    /\ UNCHANGED <<results, confidence_threshold, max_detections, detection_count, drawn>>
    /\ UNCHANGED <<buffers, frame, processed_frame, model_input, original_written>>
    /\ UNCHANGED <<regVars, appVars, sesVars, liveVars>>

\* one iteration of `for box in boxes:`, or the end of that loop
NextBox ==
    /\ apc = "box"
    /\ IF bi > Len(results[ri].boxes) \/ CapReached(detection_count, max_detections)
       THEN \* the loop is exhausted, or `break`: on to the next result object
            /\ ri' = ri + 1
            /\ apc' = "result"
            /\ UNCHANGED <<bi, detection_count, drawn, buffers>>
       ELSE LET box == results[ri].boxes[bi] IN
            IF BelowThreshold(box.conf, confidence_threshold)
            THEN \* `continue`
                 /\ bi' = bi + 1
                 /\ UNCHANGED <<ri, apc, detection_count, drawn, buffers>>
            ELSE /\ drawn' = Append(drawn,
                        [r |-> ri, b |-> bi, box |-> box,
                         label |-> Label(get_class_name_short(box.cls), box.conf),
                         color |-> get_class_color(box.cls)])
                 /\ buffers' = [buffers EXCEPT ![processed_frame] =
                        Append(@, Mark(box, Label(get_class_name_short(box.cls), box.conf),
                                       get_class_color(box.cls)))]
                 /\ detection_count' = detection_count + 1
                 /\ bi' = bi + 1
                 /\ UNCHANGED <<ri, apc>>
    /\ UNCHANGED <<results, confidence_threshold, max_detections>>
    /\ UNCHANGED <<frame, processed_frame, model_input, original_written>>
    /\ UNCHANGED <<regVars, appVars, sesVars, liveVars>>

AnnNext == Infer \/ NextResult \/ NextBox

(***************************************************************************)
(* The Streamlit script (one run per rerun), load_yolo_model_cached,       *)
(* process_video_file and the two sections that use the model.             *)
(***************************************************************************)
NoRet == [returned |-> FALSE, ok |-> FALSE, total_frames |-> 0,
          processed_frames_count |-> 0]

\* return None, None, None
RetNone == [returned |-> TRUE, ok |-> FALSE, total_frames |-> 0,
            processed_frames_count |-> 0]

NoRequest == [uploaded |-> FALSE, pressed |-> FALSE, source |-> "unset",
              sink |-> "unset"]

EmptyCache == [filled |-> FALSE, value |-> "None"]

\* the label sets a best.pt may carry (model.names)
AppModelNames == { <<>>, << <<0, <<"m","a","s","k">> >>, <<1, <<"g","l","o","v","e">> >> >> }

\* what CAP_PROP_FRAME_COUNT may say of a source that decodes to n frames
MetaCounts(n) == {0, n, n + 1} \cup (IF n >= 2 THEN {n - 1} ELSE {})

AppInit ==
    /\ spc = "idle"
    /\ model_file \in {"missing", "ok", "corrupt"}
    /\ cache = EmptyCache
    /\ model = "unset"
    /\ messages = {}
    /\ source_frames = 0
    /\ total_frames = 0
    /\ frame_skip = 1
    /\ frame_count = 0
    /\ processed_frames_count = 0
    /\ out_original = <<>>
    /\ out_detected = <<>>
    /\ inferred = <<>>
    /\ open_handles = {}
    /\ files = {}
    /\ leaked = FALSE
    /\ ret = NoRet
    /\ delivered = {}
    /\ exception = "none"
    /\ transformer = "none"
    /\ request = NoRequest

\* the body of load_yolo_model_cached (lines 86-100): the value it returns
LoadResult == IF model_file = "ok" THEN "YOLO" ELSE "None"

LoadMessages ==
    CASE model_file = "missing" -> {"model file not found"}
      [] model_file = "corrupt" -> {"error loading model"}
      [] OTHER -> {}

\* `if model is None:` (lines 734 and 779)
ModelMissing_Mutant(mdl) == FALSE
ModelMissing(mdl) == mdl = "None"

\* `if not cap.isOpened():` (line 105)
SourceClosed_Mutant(openable) == FALSE
SourceClosed(openable) == ~openable

\* `if not out_detected.isOpened() or not out_original.isOpened():` (line 124)
WritersClosed(det_ok, orig_ok) == ~det_ok \/ ~orig_ok

\* `if frame_count % frame_skip == 0:` (line 143)
IsProcessed_Mutant(n, skip) == (n + 1) % skip = 0
IsProcessed(n, skip) == n % skip = 0

\* best.pt appears, disappears or is replaced between two runs
EnvChange ==
    /\ spc \in {"idle", "crashed"}
    /\ \E f \in {"missing", "ok", "corrupt"} : f # model_file /\ model_file' = f
    /\ UNCHANGED <<spc, cache, model, messages, videoVars, transformer>>
    /\ UNCHANGED request
    /\ UNCHANGED <<regVars, annVars, sesVars, liveVars>>

\* a rerun of the script: module level starts again
RunStart ==
    /\ spc \in {"idle", "crashed"}
    /\ spc' = "load"
    /\ model' = "unset"
    /\ messages' = {}
    /\ source_frames' = 0
    /\ total_frames' = 0
    /\ frame_skip' = 1
    /\ frame_count' = 0
    /\ processed_frames_count' = 0
    /\ out_original' = <<>>
    /\ out_detected' = <<>>
    /\ inferred' = <<>>
    /\ open_handles' = {}
    /\ files' = {}
    /\ leaked' = (leaked \/ files # {})
    /\ ret' = NoRet
    /\ delivered' = {}
    /\ exception' = "none"
    /\ transformer' = "none"
    /\ request' = NoRequest
    /\ UNCHANGED <<model_file, cache>>
    /\ UNCHANGED <<regVars, annVars, sesVars, liveVars>>

\* st.success / st.error of the reload branch (lines 694-697)
ReloadMessages(reloading, value) ==
    IF ~reloading THEN {}
    ELSE IF value = "YOLO" THEN {"model reloaded"} ELSE {"failed to reload model"}

\* the body of load_yolo_model_cached run and its value cached; it installs
\* model.names when they are not empty (lines 92-93)
LoaderBody(reloading) ==
    /\ model' = LoadResult
    /\ cache' = [filled |-> TRUE, value |-> LoadResult]
    /\ IF LoadResult = "YOLO"
       THEN \E names \in AppModelNames :
               /\ IF Truthy(names)
                  THEN /\ EXPECTED_CLASSES' = NewExpected(names)
                       /\ DISPLAY_NAMES' = NewDisplay(names)
                       /\ last_update' = [called |-> TRUE, arg |-> names]
                       /\ messages' = messages \cup ReloadMessages(reloading, "YOLO")
                  ELSE /\ UNCHANGED <<EXPECTED_CLASSES, DISPLAY_NAMES, last_update>>
                       /\ messages' = messages \cup {"model has no class names"}
                                          \cup ReloadMessages(reloading, "YOLO")
               /\ UNCHANGED <<registry_module, last_resolve, upd, rd>>
       ELSE /\ messages' = messages \cup LoadMessages \cup ReloadMessages(reloading, "None")
            /\ UNCHANGED regVars

\* line 670: model = load_yolo_model_cached(), answered from the cache when
\* the cache holds a value (None included)
LoadModel ==
    /\ spc = "load"
    /\ IF cache.filled
       THEN /\ model' = cache.value
            /\ UNCHANGED <<cache, messages, regVars>>
       ELSE LoaderBody(FALSE)
    /\ spc' = "reload"
    /\ UNCHANGED <<model_file, videoVars, transformer>>
    /\ UNCHANGED request
    /\ UNCHANGED <<annVars, sesVars, liveVars>>

\* lines 690-697, the Reload Model button not pressed
NoReload ==
    /\ spc = "reload"
    /\ spc' = "video"
    /\ UNCHANGED <<model_file, cache, model, messages, videoVars, transformer>>
    /\ UNCHANGED request
    /\ UNCHANGED <<regVars, annVars, sesVars, liveVars>>

\* lines 690-697, the button pressed: st.cache_resource.clear() and the loader again
ReloadModel ==
    /\ spc = "reload"
    /\ LoaderBody(TRUE)
    /\ spc' = "video"
    /\ UNCHANGED <<model_file, videoVars, transformer>>
    /\ UNCHANGED request
    /\ UNCHANGED <<annVars, sesVars, liveVars>>

\* lines 733-738: nothing is uploaded, or a video is, the model is there and
\* Process Video is not pressed
VideoSectionSkip ==
    /\ spc = "video"
    /\ \E uploaded \in BOOLEAN :
          /\ uploaded => ~ModelMissing(model)
          /\ request' = [request EXCEPT !.uploaded = uploaded]
    /\ spc' = "live"
    /\ UNCHANGED <<model_file, cache, model, messages, videoVars, transformer>>
    /\ UNCHANGED <<regVars, annVars, sesVars, liveVars>>

\* lines 733-735: a video is uploaded and there is no model
VideoSectionNoModel ==
    /\ spc = "video"
    /\ ModelMissing(model)
    /\ request' = [request EXCEPT !.uploaded = TRUE]
    /\ messages' = messages \cup {"model is not loaded, cannot process video"}
    /\ spc' = "live"
    /\ UNCHANGED <<model_file, cache, model, videoVars, transformer>>
    /\ UNCHANGED <<regVars, annVars, sesVars, liveVars>>

\* lines 738-752: Process Video pressed: the upload is copied to a temporary
\* file and process_video_file is entered
VideoSectionProcess ==
    /\ spc = "video"
    /\ ~ModelMissing(model)
    /\ request' = [request EXCEPT !.uploaded = TRUE, !.pressed = TRUE]
    /\ files' = files \cup {"upload"}
    /\ \E skip \in 1..MaxSkip : frame_skip' = skip
    /\ spc' = "pvf_open"
    /\ UNCHANGED <<model_file, cache, model, messages, source_frames, total_frames,
                   frame_count, processed_frames_count, out_original, out_detected,
                   inferred, open_handles, leaked, ret, delivered, exception,
                   transformer>>
    /\ UNCHANGED <<regVars, annVars, sesVars, liveVars>>

\* lines 104-122: the capture is opened; when it is, the properties are read,
\* the two output files are created and the two writers constructed
PvfOpen ==
    /\ spc = "pvf_open"
    /\ \E openable \in BOOLEAN :
          /\ request' = [request EXCEPT
                            !.source = IF openable THEN "opened" ELSE "unreadable"]
          /\ IF SourceClosed(openable)
             THEN /\ messages' = messages \cup {"could not open video file"}
                  /\ ret' = RetNone
                  /\ spc' = "deliver"
                  /\ UNCHANGED <<source_frames, total_frames, files, open_handles>>
             ELSE /\ \E n \in 0..MaxFrames :
                        /\ source_frames' = n
                        /\ \E meta \in MetaCounts(n) : total_frames' = meta
                  /\ files' = files \cup {"original", "detected"}
                  /\ open_handles' = (IF openable THEN {"cap"} ELSE {})
                  /\ spc' = "pvf_writers"
                  /\ UNCHANGED <<messages, ret>>
    /\ UNCHANGED <<model_file, cache, model, frame_skip, frame_count,
                   processed_frames_count, out_original, out_detected, inferred,
                   leaked, delivered, exception, transformer>>
    /\ UNCHANGED <<regVars, annVars, sesVars, liveVars>>

\* lines 124-133: the writers are tested; the counters start at 0
PvfWriters ==
    /\ spc = "pvf_writers"
    /\ \E det_ok \in BOOLEAN, orig_ok \in BOOLEAN :
          /\ request' = [request EXCEPT
                            !.sink = IF det_ok /\ orig_ok THEN "opened" ELSE "unwritable"]
          /\ IF WritersClosed(det_ok, orig_ok)
             THEN /\ messages' = messages \cup {"could not initialize video writers"}
                  /\ open_handles' = (open_handles \ {"cap"})
                                         \cup (IF det_ok THEN {"out_detected"} ELSE {})
                                         \cup (IF orig_ok THEN {"out_original"} ELSE {})
                  /\ ret' = RetNone
                  /\ spc' = "deliver"
                  /\ UNCHANGED <<frame_count, processed_frames_count>>
             ELSE /\ open_handles' = open_handles \cup {"out_detected", "out_original"}
                  /\ frame_count' = 0
                  /\ processed_frames_count' = 0
                  /\ spc' = "pvf_read"
                  /\ UNCHANGED <<messages, ret>>
    /\ UNCHANGED <<model_file, cache, model, source_frames, total_frames, frame_skip,
                   out_original, out_detected, inferred, files, leaked, delivered,
                   exception, transformer>>
    /\ UNCHANGED <<regVars, annVars, sesVars, liveVars>>

\* lines 136-138: ret, frame = cap.read(); the loop ends when no frame is left
PvfRead ==
    /\ spc = "pvf_read"
    /\ spc' = IF frame_count < source_frames THEN "pvf_frame" ELSE "pvf_release"
    /\ UNCHANGED <<model_file, cache, model, messages, videoVars, transformer>>
    /\ UNCHANGED request
    /\ UNCHANGED <<regVars, annVars, sesVars, liveVars>>

\* lines 141-173 with a model call that returns (or a frame that is skipped)
PvfFrame ==
    /\ spc = "pvf_frame"
    /\ out_original' = Append(out_original, frame_count)
    /\ IF IsProcessed(frame_count, frame_skip)
       THEN /\ inferred' = Append(inferred, frame_count)
            /\ out_detected' = Append(out_detected, frame_count)
            /\ processed_frames_count' = processed_frames_count + 1
       ELSE UNCHANGED <<inferred, out_detected, processed_frames_count>>
    /\ spc' = "pvf_progress"
    /\ UNCHANGED <<model_file, cache, model, messages, source_frames, total_frames,
                   frame_skip, frame_count, open_handles, files, leaked, ret,
                   delivered, exception, transformer>>
    /\ UNCHANGED request
    /\ UNCHANGED <<regVars, annVars, sesVars, liveVars>>

\* where an exception raised in the loop takes the run: nothing catches it,
\* neither in process_video_file nor in the script, so the run ends
OnRaise_Mutant == "pvf_release"
OnRaise_Retry == "pvf_frame"
OnRaise == "crashed"

\* lines 141-145 with a model call that raises
PvfFrameRaises ==
    /\ spc = "pvf_frame"
    /\ IsProcessed(frame_count, frame_skip)
    /\ out_original' = Append(out_original, frame_count)
    /\ inferred' = Append(inferred, frame_count)
    /\ exception' = "inference error"
    /\ spc' = OnRaise
    /\ UNCHANGED <<model_file, cache, model, messages, source_frames, total_frames,
                   frame_skip, frame_count, processed_frames_count, out_detected,
                   open_handles, files, leaked, ret, delivered, transformer>>
    /\ UNCHANGED request
    /\ UNCHANGED <<regVars, annVars, sesVars, liveVars>>

\* lines 141-173 with a write to the detected-output video that raises
PvfWriteRaises ==
    /\ spc = "pvf_frame"
    /\ IsProcessed(frame_count, frame_skip)
    /\ out_original' = Append(out_original, frame_count)
    /\ inferred' = Append(inferred, frame_count)
    /\ exception' = "I/O error"
    /\ spc' = OnRaise
    /\ UNCHANGED <<model_file, cache, model, messages, source_frames, total_frames,
                   frame_skip, frame_count, processed_frames_count, out_detected,
                   open_handles, files, leaked, ret, delivered, transformer>>
    /\ UNCHANGED request
    /\ UNCHANGED <<regVars, annVars, sesVars, liveVars>>

\* lines 175-177: frame_count += 1; min(1.0, frame_count / total_frames)
PvfProgress ==
    /\ spc = "pvf_progress"
    /\ frame_count' = frame_count + 1
    /\ IF total_frames = 0
       THEN /\ exception' = "ZeroDivisionError"
            /\ spc' = "crashed"
       ELSE /\ spc' = "pvf_read"
            /\ UNCHANGED exception
    /\ UNCHANGED <<model_file, cache, model, messages, source_frames, total_frames,
                   frame_skip, processed_frames_count, out_original, out_detected,
                   inferred, open_handles, files, leaked, ret, delivered, transformer>>
    /\ UNCHANGED request
    /\ UNCHANGED <<regVars, annVars, sesVars, liveVars>>

\* lines 179-189: everything is released and the paths and properties returned
PvfRelease ==
    /\ spc = "pvf_release"
    /\ open_handles' = {}
    /\ ret' = [returned |-> TRUE, ok |-> TRUE, total_frames |-> total_frames,
               processed_frames_count |-> processed_frames_count]
    /\ spc' = "deliver"
    /\ UNCHANGED <<model_file, cache, model, messages, source_frames, total_frames,
                   frame_skip, frame_count, processed_frames_count, out_original,
                   out_detected, inferred, files, leaked, delivered, exception,
                   transformer>>
    /\ UNCHANGED request
    /\ UNCHANGED <<regVars, annVars, sesVars, liveVars>>

\* lines 754-773: the result is shown and its files removed, or the failure
\* is reported; then the uploaded copy is removed
Deliver ==
    /\ spc = "deliver"
    /\ IF ret.ok
       THEN /\ delivered' = {"original", "detected"}
            /\ messages' = messages \cup {"detection results"}
            /\ files' = files \ {"original", "detected", "upload"}
       ELSE /\ messages' = messages \cup {"video processing failed"}
            /\ files' = files \ {"upload"}
            /\ UNCHANGED delivered
    /\ spc' = "live"
    /\ UNCHANGED <<model_file, cache, model, source_frames, total_frames, frame_skip,
                   frame_count, processed_frames_count, out_original, out_detected,
                   inferred, open_handles, leaked, ret, exception, transformer>>
    /\ UNCHANGED request
    /\ UNCHANGED <<regVars, annVars, sesVars, liveVars>>

\* lines 779-790: the live section, which ends the run
LiveSection ==
    /\ spc = "live"
    /\ IF ModelMissing(model)
       THEN /\ messages' = messages \cup {"live detection is disabled"}
            /\ UNCHANGED transformer
       ELSE /\ transformer' = model
            /\ UNCHANGED messages
    /\ spc' = "idle"
    /\ UNCHANGED <<model_file, cache, model, videoVars>>
    /\ UNCHANGED request
    /\ UNCHANGED <<regVars, annVars, sesVars, liveVars>>

AppNext ==
    \/ EnvChange
    \/ RunStart
    \/ LoadModel
    \/ NoReload
    \/ ReloadModel
    \/ VideoSectionSkip
    \/ VideoSectionNoModel
    \/ VideoSectionProcess
    \/ PvfOpen
    \/ PvfWriters
    \/ PvfRead
    \/ PvfFrame
    \/ PvfFrameRaises
    \/ PvfWriteRaises
    \/ PvfProgress
    \/ PvfRelease
    \/ Deliver
    \/ LiveSection

AppFixed ==
    /\ spc = "idle"
    /\ model_file = "ok"
    /\ cache = EmptyCache
    /\ model = "unset"
    /\ messages = {}
    /\ source_frames = 0
    /\ total_frames = 0
    /\ frame_skip = 1
    /\ frame_count = 0
    /\ processed_frames_count = 0
    /\ out_original = <<>>
    /\ out_detected = <<>>
    /\ inferred = <<>>
    /\ open_handles = {}
    /\ files = {}
    /\ leaked = FALSE
    /\ ret = NoRet
    /\ delivered = {}
    /\ exception = "none"
    /\ transformer = "none"
    /\ request = NoRequest

(***************************************************************************)
(* The session store (create / take keyed by a generated token).           *)
(***************************************************************************)
Requests == 1..2            \* in-flight video-processing requests
Callers == 1..2             \* callers of take / export
Payloads == {1, 2}          \* stored results, told apart by their processed-frame count
Tokens == 1..(MaxSessions + 1)

NoHeld == [has |-> FALSE, token |-> 0, payload |-> 0]

NoTake == [called |-> FALSE, token |-> 0, ok |-> FALSE, payload |-> 0,
           was_created |-> FALSE, was_drained |-> FALSE]

EmptyStore == [t \in {} |-> 0]

\* a token no earlier create has returned
FreshToken_Mutant(n) == 1
FreshToken(n) == n + 1

Present(store, token) == token \in DOMAIN store

Put(store, token, payload) ==
    [t \in DOMAIN store \cup {token} |-> IF t = token THEN payload ELSE store[t]]

Remove_Mutant(store, token) == store
Remove(store, token) == [t \in DOMAIN store \ {token} |-> store[t]]

SesInit ==
    /\ sessions = EmptyStore
    /\ issued = 0
    /\ held = [r \in Requests |-> NoHeld]
    /\ take_result = [c \in Callers |-> NoTake]
    /\ created = EmptyStore
    /\ ok_takes = [t \in Tokens |-> 0]

\* create: a fresh token, the entry stored, the token returned to the request
Create(r, payload) ==
    /\ issued < MaxSessions
    /\ LET token == FreshToken(issued) IN
          /\ sessions' = Put(sessions, token, payload)
          /\ created' = Put(created, token, payload)
          /\ held' = [held EXCEPT ![r] = [has |-> TRUE, token |-> token,
                                           payload |-> payload]]
    /\ issued' = issued + 1
    /\ UNCHANGED <<take_result, ok_takes>>
    /\ UNCHANGED <<regVars, annVars, appVars, liveVars>>

\* take of a token that is in the store: the entry is removed and returned
TakeFound(c, token) ==
    /\ Present(sessions, token)
    /\ sessions' = Remove(sessions, token)
    /\ ok_takes' = [ok_takes EXCEPT ![token] = @ + 1]
    /\ take_result' = [take_result EXCEPT ![c] =
                          [called |-> TRUE, token |-> token, ok |-> TRUE,
                           payload |-> sessions[token],
                           was_created |-> Present(created, token),
                           was_drained |-> ok_takes[token] > 0]]
    /\ UNCHANGED <<issued, held, created>>
    /\ UNCHANGED <<regVars, annVars, appVars, liveVars>>

\* take of a token that is not in the store: SessionNotFound
TakeNotFound(c, token) ==
    /\ ~Present(sessions, token)
    /\ take_result' = [take_result EXCEPT ![c] =
                          [called |-> TRUE, token |-> token, ok |-> FALSE,
                           payload |-> 0,
                           was_created |-> Present(created, token),
                           was_drained |-> ok_takes[token] > 0]]
    /\ UNCHANGED <<sessions, issued, held, created, ok_takes>>
    /\ UNCHANGED <<regVars, annVars, appVars, liveVars>>

SesNext ==
    \/ \E r \in Requests, payload \in Payloads : Create(r, payload)
    \/ \E c \in Callers, token \in Tokens : TakeFound(c, token)
    \/ \E c \in Callers, token \in Tokens : TakeNotFound(c, token)

SesFixed ==
    /\ sessions = EmptyStore
    /\ issued = 0
    /\ held = [r \in Requests |-> NoHeld]
    /\ take_result = [c \in Callers |-> NoTake]
    /\ created = EmptyStore
    /\ ok_takes = [t \in Tokens |-> 0]

(***************************************************************************)
(* VideoTransformer.recv and _process_frame_cached with the single-slot    *)
(* frame queue, one statement per step.                                    *)
(***************************************************************************)
Threads == 1..2             \* threads that may be inside recv
Images == {"a", "b"}        \* contents of incoming frames

\* queue.Queue(maxsize=1)
QueueSize == 1

Idle == [pc |-> "idle", img |-> "a"]

\* self.frame_queue.full() / .empty()
Full(q) == Len(q) >= QueueSize
Empty(q) == Len(q) = 0

LiveInit ==
    /\ frame_queue = <<>>
    /\ call = [t \in Threads |-> Idle]
    /\ outcome = [t \in Threads |-> "none"]
    /\ frame_cache = {}
    /\ cross_drained = FALSE

\* recv is called with a frame
RecvStart(t, img) ==
    /\ call[t].pc = "idle"
    /\ call' = [call EXCEPT ![t] = [pc |-> "check", img |-> img]]
    /\ UNCHANGED <<frame_queue, outcome, frame_cache, cross_drained>>
    /\ UNCHANGED <<regVars, annVars, appVars, sesVars>>

\* lines 201-202: if self.frame_queue.full(): return frame
RecvCheck(t) ==
    /\ call[t].pc = "check"
    /\ IF Full(frame_queue)
       THEN /\ call' = [call EXCEPT ![t].pc = "idle"]
            /\ outcome' = [outcome EXCEPT ![t] = "skipped"]
       ELSE /\ call' = [call EXCEPT ![t].pc = "put"]
            /\ UNCHANGED outcome
    /\ UNCHANGED <<frame_queue, frame_cache, cross_drained>>
    /\ UNCHANGED <<regVars, annVars, appVars, sesVars>>

\* line 207: self.frame_queue.put(img), which waits while the queue is full
RecvPut(t) ==
    /\ call[t].pc = "put"
    /\ ~Full(frame_queue)
    /\ frame_queue' = Append(frame_queue, [img |-> call[t].img, by |-> t])
    /\ call' = [call EXCEPT ![t].pc = "lookup"]
    /\ UNCHANGED <<outcome, frame_cache, cross_drained>>
    /\ UNCHANGED <<regVars, annVars, appVars, sesVars>>

\* line 210 with @st.cache_data(ttl=0.1) (line 216): a live entry answers the
\* call and the body does not run; otherwise the body is entered
RecvLookup(t) ==
    /\ call[t].pc = "lookup"
    /\ IF call[t].img \in frame_cache
       THEN /\ call' = [call EXCEPT ![t].pc = "idle"]
            /\ outcome' = [outcome EXCEPT ![t] = "cached"]
       ELSE /\ call' = [call EXCEPT ![t].pc = "infer"]
            /\ UNCHANGED outcome
    /\ UNCHANGED <<frame_queue, frame_cache, cross_drained>>
    /\ UNCHANGED <<regVars, annVars, appVars, sesVars>>

\* lines 219-246: the model call returns and the frame is annotated
RecvInfer(t) ==
    /\ call[t].pc = "infer"
    /\ call' = [call EXCEPT ![t].pc = "drain_test"]
    /\ UNCHANGED <<frame_queue, outcome, frame_cache, cross_drained>>
    /\ UNCHANGED <<regVars, annVars, appVars, sesVars>>

\* line 219: the model call raises; nothing in recv catches it
RecvInferRaises(t) ==
    /\ call[t].pc = "infer"
    /\ call' = [call EXCEPT ![t].pc = "idle"]
    /\ outcome' = [outcome EXCEPT ![t] = "raised"]
    /\ UNCHANGED <<frame_queue, frame_cache, cross_drained>>
    /\ UNCHANGED <<regVars, annVars, appVars, sesVars>>

\* line 249: if not self.frame_queue.empty():
RecvDrainTest(t) ==
    /\ call[t].pc = "drain_test"
    /\ call' = [call EXCEPT ![t].pc = IF ~Empty(frame_queue) THEN "drain" ELSE "return"]
    /\ UNCHANGED <<frame_queue, outcome, frame_cache, cross_drained>>
    /\ UNCHANGED <<regVars, annVars, appVars, sesVars>>

\* lines 250-253: self.frame_queue.get_nowait(), queue.Empty swallowed
RecvDrain(t) ==
    /\ call[t].pc = "drain"
    /\ IF Empty(frame_queue)
       THEN UNCHANGED <<frame_queue, cross_drained>>
       ELSE /\ frame_queue' = Tail(frame_queue)
            /\ cross_drained' =
                  (cross_drained \/ (Head(frame_queue).by # t
                                     /\ call[Head(frame_queue).by].pc # "idle"))
    /\ call' = [call EXCEPT ![t].pc = "return"]
    /\ UNCHANGED <<outcome, frame_cache>>
    /\ UNCHANGED <<regVars, annVars, appVars, sesVars>>

\* lines 255 and 212: the result is cached and returned
RecvReturn(t) ==
    /\ call[t].pc = "return"
    /\ frame_cache' = frame_cache \cup {call[t].img}
    /\ call' = [call EXCEPT ![t].pc = "idle"]
    /\ outcome' = [outcome EXCEPT ![t] = "processed"]
    /\ UNCHANGED <<frame_queue, cross_drained>>
    /\ UNCHANGED <<regVars, annVars, appVars, sesVars>>

\* ttl=0.1: a cache entry expires
CacheExpire ==
    /\ \E img \in frame_cache : frame_cache' = frame_cache \ {img}
    /\ UNCHANGED <<frame_queue, call, outcome, cross_drained>>
    /\ UNCHANGED <<regVars, annVars, appVars, sesVars>>

RecvStep(t) ==
    \/ \E img \in Images : RecvStart(t, img)
    \/ RecvCheck(t)
    \/ RecvPut(t)
    \/ RecvLookup(t)
    \/ RecvInfer(t)
    \/ RecvInferRaises(t)
    \/ RecvDrainTest(t)
    \/ RecvDrain(t)
    \/ RecvReturn(t)

\* recv called by one thread, one call after the other
LiveNext == RecvStep(1) \/ CacheExpire

\* recv calls of several threads interleaved
LiveConcNext == (\E t \in Threads : RecvStep(t)) \/ CacheExpire

LiveFixed ==
    /\ frame_queue = <<>>
    /\ call = [t \in Threads |-> Idle]
    /\ outcome = [t \in Threads |-> "none"]
    /\ frame_cache = {}
    /\ cross_drained = FALSE

\* registry state while another component is explored
RegFixed ==
    /\ registry_module = "app"
    /\ EXPECTED_CLASSES = DefaultExpected
    /\ DISPLAY_NAMES = DefaultDisplay
    /\ last_update = NoUpdate
    /\ last_resolve = NoResolve
    /\ upd = [pc |-> "idle", arg |-> <<>>, k |-> 0]
    /\ rd = [pc |-> "idle"]

AnnFixed ==
    /\ results = <<>>
    /\ confidence_threshold = 50
    /\ max_detections = 0
    /\ ri = 0
    /\ bi = 0
    /\ detection_count = 0
    /\ drawn = <<>>
    /\ apc = "done"
    /\ buffers = << <<>> >>
    /\ frame = 1
    /\ processed_frame = 0
    /\ model_input = NotYet
    /\ original_written = NotYet

vars == <<regVars, annVars, appVars, sesVars, liveVars>>

RegistryInit == RegInit /\ AnnFixed /\ AppFixed /\ SesFixed /\ LiveFixed

SpecRegistry == RegistryInit /\ [][RegNext]_vars

SpecRegistryConc == RegistryInit /\ [][RegConcNext]_vars

AnnotInit == RegFixed /\ AnnInit /\ AppFixed /\ SesFixed /\ LiveFixed

SpecAnnot == AnnotInit /\ [][AnnNext]_vars

ScriptInit == RegFixed /\ AnnFixed /\ AppInit /\ SesFixed /\ LiveFixed

SpecApp == ScriptInit /\ [][AppNext]_vars

SessionInit == RegFixed /\ AnnFixed /\ AppFixed /\ SesInit /\ LiveFixed

SpecSession == SessionInit /\ [][SesNext]_vars

WebcamInit == RegFixed /\ AnnFixed /\ AppFixed /\ SesFixed /\ LiveInit

SpecLive == WebcamInit /\ [][LiveNext]_vars

SpecLiveConc == WebcamInit /\ [][LiveConcNext]_vars

(***************************************************************************)
(* Claims about the class registry.                                        *)
(***************************************************************************)
InTable(names, id) == 0 <= id /\ id < Len(names)

\* C3: resolving an id outside the current table never fails and yields the
\* placeholder name "Unknown_<id>" for both names together with the default
\* color (0,255,0), after any sequence of replacements.
C3_OutOfRangePlaceholder ==
    (last_resolve.called /\ ~InTable(EXPECTED_CLASSES, last_resolve.id))
        => /\ last_resolve.name = Unknown(last_resolve.id)
           /\ last_resolve.short = Unknown(last_resolve.id)
           /\ last_resolve.color = DefaultColor

\* C4: after update_mapping_from_model with a non-empty mapping, in either
\* module and whatever the insertion order, the names are ordered by
\* ascending id, the display names are their title-cased forms in the same
\* order, and position i carries palette color i.
C4_SortedRebuild ==
    (last_update.called /\ last_update.arg # <<>>)
        => /\ EXPECTED_CLASSES = Values(SortedItems(last_update.arg))
           /\ DISPLAY_NAMES = [i \in 1..Len(last_update.arg) |->
                                  Title(Values(SortedItems(last_update.arg))[i])]
           /\ \A i \in 0..(Len(last_update.arg) - 1) :
                  i < Len(COLORS) => get_class_color(i) = COLORS[i + 1]

OldTable == <<DefaultExpected, DefaultDisplay>>

NewTable == <<NewExpected(upd.arg), NewDisplay(upd.arg)>>

ReadFrom(table) ==
    /\ rd.name = NameIn(table[1], rd.id)
    /\ rd.short = NameIn(table[2], rd.id)

\* C5: the replacement is one atomic swap: a reader that resolved an id next
\* to one update call got its name and its display name from the same table,
\* the old one or the new one.
C5_AtomicSwap ==
    rd.pc = "done" =>
        \/ ReadFrom(OldTable)
        \/ upd.pc # "idle" /\ Truthy(upd.arg) /\ ReadFrom(NewTable)

(***************************************************************************)
(* Claims about the annotation loop.                                       *)
(***************************************************************************)
\* the detections of the frame in model-native order, each with its place
RECURSIVE Flatten(_, _)
Flatten(rs, r) ==
    IF r > Len(rs) THEN <<>>
    ELSE [b \in 1..Len(rs[r].boxes) |-> [r |-> r, b |-> b, box |-> rs[r].boxes[b]]]
             \o Flatten(rs, r + 1)

Passing(flat, threshold) ==
    SelectSeq(flat, LAMBDA d : d.box.conf >= threshold)

FirstK(s, k) == SubSeq(s, 1, IF Len(s) < k THEN Len(s) ELSE k)

Accepted == [i \in 1..Len(drawn) |-> [r |-> drawn[i].r, b |-> drawn[i].b, box |-> drawn[i].box]]

\* C1: when the loop has finished, the detections drawn and counted are
\* exactly the first K detections, in model-native order, whose confidence is
\* not below tau.
C1_FirstKPassing ==
    apc = "done" =>
        /\ Accepted = FirstK(Passing(Flatten(results, 1), confidence_threshold),
                             max_detections)
        /\ detection_count = Len(drawn)

\* C1 witness: a finished frame where a detection with confidence equal to
\* tau was accepted, one below tau was skipped, and a passing detection was
\* cut off by the cap.
C1_Witness ==
    /\ apc = "done"
    /\ \E i \in 1..Len(drawn) : drawn[i].box.conf = confidence_threshold
    /\ \E i \in 1..Len(Flatten(results, 1)) :
           Flatten(results, 1)[i].box.conf < confidence_threshold
    /\ Len(Passing(Flatten(results, 1), confidence_threshold)) > max_detections
    /\ max_detections > 0

\* what the frame loop has settled when it is about to read frame n
RECURSIVE UpTo(_)
UpTo(n) == IF n = 0 THEN <<>> ELSE Append(UpTo(n - 1), n - 1)

RECURSIVE MultiplesBelow(_, _)
MultiplesBelow(n, skip) ==
    IF n = 0 THEN <<>>
    ELSE IF (n - 1) % skip = 0 THEN Append(MultiplesBelow(n - 1, skip), n - 1)
         ELSE MultiplesBelow(n - 1, skip)

CeilDiv(n, skip) == (n + skip - 1) \div skip

InLoop == spc \in {"pvf_read", "pvf_frame", "pvf_progress", "pvf_release"}

Settled == IF spc = "pvf_progress" THEN frame_count + 1 ELSE frame_count

\* C2: process_video_file numbers the decoded frames 0,1,2,..., annotates
\* exactly the frames whose number is a multiple of frame_skip, in ascending
\* order, and a run that returns reports ceil(N / frame_skip) processed frames
\* for a source of N frames.
C2_SkipSelection ==
    /\ InLoop =>
          /\ out_original = UpTo(Settled)
          /\ out_detected = MultiplesBelow(Settled, frame_skip)
          /\ processed_frames_count = Len(out_detected)
    /\ ret.ok =>
          /\ out_original = UpTo(source_frames)
          /\ out_detected = MultiplesBelow(source_frames, frame_skip)
          /\ \A i \in 1..Len(out_detected) : out_detected[i] = (i - 1) * frame_skip
          /\ ret.processed_frames_count = CeilDiv(source_frames, frame_skip)
          /\ ret.processed_frames_count = Len(out_detected)

C2_Witness ==
    /\ ret.ok
    /\ source_frames = 23
    /\ frame_skip = 5
    /\ out_detected = <<0, 5, 10, 15, 20>>
    /\ ret.processed_frames_count = 5

OpenFailed == "could not open video file" \in messages

SinkFailed == "could not initialize video writers" \in messages

\* C9: when the source cannot be opened, and when an output video cannot be
\* opened for writing, process_video_file reports the one or the other
\* message, decodes and annotates no frame, returns (None, None, None), and
\* the script reports a failed run instead of a result with zero frames.
C9_DistinctOpenFailures ==
    /\ ~(OpenFailed /\ SinkFailed)
    /\ request.source = "unreadable" => OpenFailed /\ request.sink = "unset"
    /\ request.sink = "unwritable" => SinkFailed /\ request.source = "opened"
    /\ (OpenFailed \/ SinkFailed) =>
          /\ ret = RetNone
          /\ frame_count = 0
          /\ out_original = <<>>
          /\ out_detected = <<>>
          /\ inferred = <<>>
          /\ delivered = {}
          /\ "detection results" \notin messages
          /\ exception = "none"
          /\ spc \in {"deliver", "live", "idle"}
          /\ spc # "deliver" => "video processing failed" \in messages
    /\ (ret.returned /\ ~ret.ok) => (OpenFailed \/ SinkFailed)

C9_Witness ==
    /\ SinkFailed
    /\ request.sink = "unwritable"
    /\ "video processing failed" \in messages
    /\ spc = "idle"

\* C10: while the model is None, process_video_file is not entered, no frame
\* is inferred and no VideoTransformer is created; an uploaded video gets the
\* model-not-loaded error and the live section its disabled warning; the
\* Reload Model button does not change that.
C10_NoModelNoAnnotation ==
    model = "None" =>
        /\ spc \in {"reload", "video", "live", "idle"}
        /\ inferred = <<>>
        /\ ~request.pressed
        /\ request.source = "unset"
        /\ ~ret.returned
        /\ delivered = {}
        /\ transformer = "none"
        /\ request.uploaded => "model is not loaded, cannot process video" \in messages
        /\ spc = "idle" => "live detection is disabled" \in messages

C10_Witness ==
    /\ model = "None"
    /\ "failed to reload model" \in messages
    /\ request.uploaded
    /\ spc = "idle"
    /\ leaked

\* C6: a take returns the stored session exactly when its token was created
\* and not yet taken, and then removes it; every other take (token taken
\* before, or never created) is SessionNotFound.
C6_AtMostOnce ==
    \A c \in Callers :
        take_result[c].called =>
            LET r == take_result[c] IN
                /\ r.ok <=> (r.was_created /\ ~r.was_drained)
                /\ r.ok => /\ r.payload = created[r.token]
                           /\ ~Present(sessions, r.token)

C6_Witness ==
    /\ take_result[1].called /\ take_result[1].ok
    /\ take_result[2].called /\ ~take_result[2].ok
    /\ take_result[2].token = take_result[1].token
    /\ take_result[2].was_drained

\* C7: whatever the interleaving of creates and takes of several requests
\* and callers, no token is taken successfully twice, and every created
\* session is either still stored as created or was taken once.
C7_ConcurrentStore ==
    /\ \A t \in Tokens : ok_takes[t] <= 1
    /\ \A t \in DOMAIN created :
          \/ Present(sessions, t) /\ sessions[t] = created[t] /\ ok_takes[t] = 0
          \/ ~Present(sessions, t) /\ ok_takes[t] = 1
    /\ Cardinality(DOMAIN created) = issued
    /\ \A r \in Requests : held[r].has =>
          /\ Present(created, held[r].token)
          /\ created[held[r].token] = held[r].payload
    /\ \A r1, r2 \in Requests :
          (r1 # r2 /\ held[r1].has /\ held[r2].has) => held[r1].token # held[r2].token

C7_Witness ==
    /\ held[1].has /\ held[2].has
    /\ held[1].payload # held[2].payload
    /\ take_result[1].called /\ take_result[2].called
    /\ take_result[1].token = held[1].token
    /\ take_result[2].token = held[1].token
    /\ take_result[1].ok # take_result[2].ok
    /\ Present(sessions, held[2].token)


\* the marks of the detections drawn so far
RECURSIVE MarksOf(_)
MarksOf(d) ==
    IF d = <<>> THEN <<>>
    ELSE Append(MarksOf(SubSeq(d, 1, Len(d) - 1)),
                Mark(d[Len(d)].box, d[Len(d)].label, d[Len(d)].color))

\* C11: annotation never changes the input frame: what the model got and what
\* went to the original output is the decoded frame, every rectangle and
\* label is on a buffer of its own, and the input buffer is still the decoded
\* frame when the annotation is done.
C11_InputNotMutated ==
    apc # "infer" =>
        /\ buffers[frame] = <<>>
        /\ model_input = <<>>
        /\ original_written = <<>>
        /\ processed_frame # frame
        /\ buffers[processed_frame] = MarksOf(drawn)

C11_Witness ==
    /\ apc = "done"
    /\ Len(drawn) = 2
    /\ Len(buffers[processed_frame]) = 2
    /\ buffers[frame] = <<>>

\* C12: every call of update_mapping_from_model with an empty label set
\* leaves the name list and the display-name list exactly as they were before
\* the call, be that the default table or one installed earlier (the palette
\* COLORS is never assigned).
C12_EmptyUpdateKeepsTable ==
    [][UpdateMapping(<<>>) =>
          /\ EXPECTED_CLASSES' = EXPECTED_CLASSES
          /\ DISPLAY_NAMES' = DISPLAY_NAMES]_vars

C12_Witness ==
    /\ last_update.called
    /\ last_update.arg = <<>>
    /\ EXPECTED_CLASSES # DefaultExpected
    /\ Len(EXPECTED_CLASSES) = 2

\* the model calls of the frame loop so far: one per frame whose number
\* frame_skip divides, none for another frame, none twice
OncePerSelectedFrame ==
    /\ InLoop => inferred = MultiplesBelow(Settled, frame_skip)
    /\ ret.ok => inferred = MultiplesBelow(source_frames, frame_skip)
    /\ \A i \in 1..Len(inferred) : inferred[i] = (i - 1) * frame_skip

\* a model error ends the run at the frame it was raised on
StopsAtFirstError ==
    exception = "inference error" =>
        /\ spc = "crashed"
        /\ ~ret.returned
        /\ Len(inferred) >= 1
        /\ inferred[Len(inferred)] = frame_count
        /\ out_original = UpTo(frame_count + 1)
        /\ out_detected = MultiplesBelow(frame_count, frame_skip)

\* nothing of a run moves once an exception has ended it, until the next run
FrozenAfterError ==
    exception # "none" =>
        \/ spc' = "load"
        \/ UNCHANGED <<spc, frame_count, out_original, out_detected, inferred, exception>>

\* C13: in a run the model is called exactly once for every frame whose
\* number frame_skip divides and for no other frame; the first model error
\* ends process_video_file, and after it no frame is decoded or inferred.
C13_OnceNoRetry ==
    /\ [](OncePerSelectedFrame /\ StopsAtFirstError)
    /\ [][FrozenAfterError]_vars

C13_Witness ==
    /\ exception = "inference error"
    /\ frame_skip = 5
    /\ frame_count = 10
    /\ inferred = <<0, 5, 10>>
    /\ out_detected = <<0, 5>>

\* C14: when process_video_file returns, the total frame count it reports is
\* the number of frames it decoded, whatever the container metadata says.
C14_TotalIsDecodedCount ==
    ret.ok =>
        /\ ret.total_frames = frame_count
        /\ ret.total_frames = Len(out_original)

\* the name a label set reports for an id that is one of its keys
LabelOf(d, id) == d[CHOOSE i \in 1..Len(d) : d[i][1] = id][2]

\* C15: after update_mapping_from_model(labels) with a non-empty mapping,
\* resolving an id that is a key of labels returns the name the model
\* reported for that id, and its title-cased form as display name.
C15_KeysResolveToTheirNames ==
    (/\ last_update.called
     /\ last_update.arg # <<>>
     /\ last_resolve.called
     /\ last_resolve.id \in Keys(last_update.arg)) =>
        /\ last_resolve.name = LabelOf(last_update.arg, last_resolve.id)
        /\ last_resolve.short = Title(LabelOf(last_update.arg, last_resolve.id))

\* C16: at every point of the annotation loop at most max_detections
\* detections are drawn on the frame, over all result objects of the
\* inference together, and none when max_detections is 0.
C16_CapShared ==
    /\ detection_count <= max_detections
    /\ Len(drawn) <= max_detections
    /\ processed_frame # 0 => Len(buffers[processed_frame]) <= max_detections
    /\ max_detections = 0 => drawn = <<>>

C16_Witness ==
    /\ apc = "done"
    /\ max_detections = 2
    /\ Len(results) = 2
    /\ Len(drawn) = 2
    /\ drawn[1].r = 1
    /\ drawn[2].r = 2
    /\ Len(Passing(Flatten(results, 1), confidence_threshold)) = 3

\* C17: once a recv call has finished, however it ended, the frame queue is
\* empty again.
C17_QueueEmptyAfterRecv ==
    (call[1].pc = "idle" /\ outcome[1] \in {"processed", "cached", "raised"}) =>
        Empty(frame_queue)

\* C18: with recv calls interleaved, no call stands at frame_queue.put while
\* the queue holds a frame, and no drain takes the frame of another call
\* that is still in progress.
C18_CheckThenPutRaceFree ==
    /\ \A t \in Threads : call[t].pc = "put" => ~Full(frame_queue)
    /\ ~cross_drained

\* a run of the script has ended, by its last statement or by an exception
RunEnded == spc \in {"idle", "crashed"}

\* C19: when a run that processed a video has ended, on whatever path, every
\* temporary file it created is deleted and the capture and both writers
\* are released.
C19_NoTempFileLeft ==
    (RunEnded /\ request.pressed) =>
        /\ files = {}
        /\ open_handles = {}

\* C20: the progress fraction frame_count / total_frames is defined for
\* every decoded frame, whatever frame count the metadata reports, and the
\* run never ends because of it.
C20_ProgressDefined ==
    /\ spc = "pvf_progress" => total_frames # 0
    /\ exception # "ZeroDivisionError"

====
